---- MODULE Spec2Model ----
(***************************************************************************)
(* A model of cli/output.go: the generic record formatter Output[T] with   *)
(* its two renderers (writeJson, writCSV), the scalar stringifier toString *)
(* and the destination helper NewWriter.                                   *)
(*                                                                         *)
(* Text is a sequence of one-character strings, so that trimming, case     *)
(* folding, number formatting, CSV quoting and JSON layout are computed    *)
(* character by character as the code and its libraries compute them.      *)
(***************************************************************************)
EXTENDS Integers, Sequences, FiniteSets, TLC

(***************************************************************************)
(* Bounds of the model.                                                    *)
(***************************************************************************)
\* longest record sequence handed to Write
MaxRecords == 2
\* the destination accepts k * RoomStep bytes, k in 0..MaxRoom, before it
\* fails, or is unlimited
MaxRoom == 4
RoomStep == 5
\* length of the long text of the Note records: more than the csv writer's
\* buffer holds, so that the row loop itself has to flush
LongLen == 4100

(***************************************************************************)
(* Text helpers.                                                           *)
(***************************************************************************)
Min(a, b) == IF a < b THEN a ELSE b

\* the texts of a sequence, one after the other
RECURSIVE Concat(_)
Concat(ss) ==
    IF Len(ss) = 0 THEN <<>>
    ELSE IF Len(ss) = 1 THEN ss[1]
    ELSE LET h == Len(ss) \div 2
         IN  Concat(SubSeq(ss, 1, h)) \o Concat(SubSeq(ss, h + 1, Len(ss)))

RECURSIVE Repeat(_, _)
Repeat(s, n) == IF n <= 0 THEN <<>> ELSE s \o Repeat(s, n - 1)

\* unicode.IsSpace on the characters of the model's alphabet
IsSpace(c) == c \in {" ", "\t", "\n", "\r"}

\* strings.TrimSpace: drop leading and trailing white space
RECURSIVE TrimLeft(_)
TrimLeft(s) == IF s # <<>> /\ IsSpace(Head(s)) THEN TrimLeft(Tail(s)) ELSE s

RECURSIVE TrimRight(_)
TrimRight(s) ==
    IF s # <<>> /\ IsSpace(s[Len(s)]) THEN TrimRight(SubSeq(s, 1, Len(s) - 1)) ELSE s

TrimSpace(s) == TrimRight(TrimLeft(s))

\* unicode.ToLower on the letters of the model's alphabet
LowerChar(c) ==
    CASE c = "J" -> "j" [] c = "S" -> "s" [] c = "O" -> "o" [] c = "N" -> "n"
      [] c = "C" -> "c" [] c = "V" -> "v" [] c = "X" -> "x" [] c = "M" -> "m"
      [] c = "L" -> "l" [] OTHER -> c

\* strings.ToLower
ToLower(s) == [i \in 1..Len(s) |-> LowerChar(s[i])]

DigitChar(d) == <<"0", "1", "2", "3", "4", "5", "6", "7", "8", "9">>[d + 1]

RECURSIVE FormatUint(_)
FormatUint(n) ==
    IF n < 10 THEN <<DigitChar(n)>>
    ELSE FormatUint(n \div 10) \o <<DigitChar(n % 10)>>

\* strconv.FormatInt(n, 10)
FormatInt(n) == IF n < 0 THEN <<"-">> \o FormatUint(-n) ELSE FormatUint(n)

\* n written with at least w digits, zero padded
Pad(n, w) == LET d == FormatUint(n) IN Repeat(<<"0">>, w - Len(d)) \o d

\* fmt.Sprintf("%.2f", x) for x = m/8 (every such x is an exact float64):
\* the exact decimal expansion rounded to two places, ties to even
FormatFloat2(m) ==
    LET a == IF m < 0 THEN -m ELSE m
        q == (a * 100) \div 8
        r == (a * 100) % 8
        h == IF r > 4 \/ (r = 4 /\ q % 2 = 1) THEN q + 1 ELSE q
    IN  (IF m < 0 THEN <<"-">> ELSE <<>>)
        \o FormatUint(h \div 100) \o <<".">> \o Pad(h % 100, 2)

\* strconv.FormatBool
FormatBool(b) == IF b THEN <<"t", "r", "u", "e">> ELSE <<"f", "a", "l", "s", "e">>

\* time.Time.String() of a UTC wall-clock time without monotonic reading:
\* "2006-01-02 15:04:05 -0700 MST"
TimeString(t) ==
    Pad(t.y, 4) \o <<"-">> \o Pad(t.mo, 2) \o <<"-">> \o Pad(t.d, 2) \o <<" ">>
    \o Pad(t.h, 2) \o <<":">> \o Pad(t.mi, 2) \o <<":">> \o Pad(t.s, 2)
    \o <<" ", "+", "0", "0", "0", "0", " ", "U", "T", "C">>

(***************************************************************************)
(* reflect.Value: kind, type name, whether it was read from an unexported  *)
(* field (ro), and the payload of its kind.                                *)
(***************************************************************************)
ZeroTime == [y |-> 1, mo |-> 1, d |-> 1, h |-> 0, mi |-> 0, s |-> 0]

Val(k, ty, ro, s, i, b, t) ==
    [kind |-> k, type |-> ty, ro |-> ro, s |-> s, i |-> i, b |-> b, t |-> t]

\* the zero reflect.Value, as returned by a failed lookup or by Elem() of nil
Invalid == Val("invalid", "", FALSE, <<>>, 0, FALSE, ZeroTime)
StrV(s) == Val("string", "string", FALSE, s, 0, FALSE, ZeroTime)
IntV(i) == Val("int", "int", FALSE, <<>>, i, FALSE, ZeroTime)
FloatV(m) == Val("float64", "float64", FALSE, <<>>, m, FALSE, ZeroTime)
BoolV(b) == Val("bool", "bool", FALSE, <<>>, 0, b, ZeroTime)
TimeV(t) == Val("struct", "time.Time", FALSE, <<>>, 0, FALSE, t)
\* kinds toString has no case for: a uint i, or a *int that is nil (b false)
\* or points to i
UintV(i) == Val("uint", "uint", FALSE, <<>>, i, FALSE, ZeroTime)
PtrV(nonnil, i) == Val("ptr", "*int", FALSE, <<>>, i, nonnil, ZeroTime)

\* the outcome of a call that panics: no text has this one-element form
Panic == <<"PANIC">>
PanicRow == <<Panic>>
PanicContent == <<PanicRow>>

\* toString: the kind switch, then the time.Time test; Interface() panics on
\* a value read from an unexported field
toString(v) ==
    CASE v.kind = "invalid" ->
           <<"<", "i", "n", "v", "a", "l", "i", "d", " ", "V", "a", "l", "u", "e", ">">>
      [] v.kind = "string" -> v.s
      [] v.kind \in {"int", "int8", "int16", "int32", "int64"} -> FormatInt(v.i)
      [] v.kind \in {"float32", "float64"} -> FormatFloat2(v.i)
      [] v.kind = "bool" -> FormatBool(v.b)
      [] OTHER ->
           IF v.type = "time.Time"
           THEN IF v.ro THEN Panic ELSE TimeString(v.t)
           ELSE <<>>

(***************************************************************************)
(* Record types T and their values.  A type is a struct, or a pointer to   *)
(* one, with its declared fields in order; a record holds one value per    *)
(* declared field, or is a nil pointer.                                    *)
(***************************************************************************)
Fld(name, tag, exported) == [name |-> name, tag |-> tag, exported |-> exported]

Str_Name == <<"N", "a", "m", "e">>
Str_full_name == <<"f", "u", "l", "l", "_", "n", "a", "m", "e">>
Str_Age == <<"A", "g", "e">>
Str_Score == <<"S", "c", "o", "r", "e">>
Str_Ok == <<"O", "k">>
Str_At == <<"A", "t">>
Str_when == <<"w", "h", "e", "n">>
Str_N == <<"N">>
Str_P == <<"P">>
Str_id == <<"i", "d">>
Str_at == <<"a", "t">>
Str_Blank == <<"_">>
Str_Text == <<"T", "e", "x", "t">>

PersonFields ==
    << Fld(Str_Name, Str_full_name, TRUE), Fld(Str_Age, <<>>, TRUE),
       Fld(Str_Score, <<>>, TRUE), Fld(Str_Ok, <<>>, TRUE) >>

\* struct { Name string `csv:"full_name"`; Age int; Score float64; Ok bool }
TPerson == [name |-> "Person", ptr |-> FALSE, fields |-> PersonFields]
\* pointer to the same struct
TPersonPtr == [name |-> "*Person", ptr |-> TRUE, fields |-> PersonFields]
\* struct { At time.Time `csv:"when"`; N uint; P *int }
TEvent ==
    [name |-> "Event", ptr |-> FALSE,
     fields |-> << Fld(Str_At, Str_when, TRUE), Fld(Str_N, <<>>, TRUE),
                   Fld(Str_P, <<>>, TRUE) >>]
\* struct { id int; at time.Time }: unexported fields
THidden ==
    [name |-> "Hidden", ptr |-> FALSE,
     fields |-> << Fld(Str_id, <<>>, FALSE), Fld(Str_at, <<>>, FALSE) >>]
\* struct { _ int; _ string }: Go lets the blank identifier repeat
TBlank ==
    [name |-> "Blank", ptr |-> FALSE,
     fields |-> << Fld(Str_Blank, <<>>, FALSE), Fld(Str_Blank, <<>>, FALSE) >>]

\* struct { Text string }
TNote == [name |-> "Note", ptr |-> FALSE, fields |-> << Fld(Str_Text, <<>>, TRUE) >>]

Types == {TPerson, TPersonPtr, TEvent, THidden, TBlank, TNote}

Rec(vals) == [nil |-> FALSE, vals |-> vals]
NilRec == [nil |-> TRUE, vals |-> <<>>]

Ann == Rec(<< StrV(<<"A", "n", "n">>), IntV(30), FloatV(1), BoolV(TRUE) >>)
Bo == Rec(<< StrV(<<"B", "o", ",", "\"", "J">>), IntV(-4), FloatV(-3), BoolV(FALSE) >>)
Ev0 == Rec(<< TimeV(ZeroTime), UintV(7), PtrV(FALSE, 0) >>)
Ev1 == Rec(<< TimeV([y |-> 2024, mo |-> 2, d |-> 29, h |-> 13, mi |-> 5, s |-> 9]),
              UintV(0), PtrV(TRUE, 12) >>)
Hid == Rec(<< IntV(5), TimeV(ZeroTime) >>)
\* blank fields cannot be set: they hold their zero values
Blk == Rec(<< IntV(0), StrV(<<>>) >>)
\* a Note whose text is longer than the csv writer's buffer
Long == Rec(<< StrV([i \in 1..LongLen |-> "x"]) >>)

\* the records of each type the model draws from
Pool(T) ==
    CASE T = TPerson -> {Ann, Bo}
      [] T = TPersonPtr -> {Ann, NilRec}
      [] T = TEvent -> {Ev0, Ev1}
      [] T = THidden -> {Hid}
      [] T = TBlank -> {Blk}
      [] T = TNote -> {Long}

SeqsUpTo(S, n) == UNION {[1..k -> S] : k \in 0..n}

\* a []T: the nil slice, or a slice of at most MaxRecords records
Slices(T) ==
    {[isnil |-> TRUE, items |-> <<>>]}
    \cup {[isnil |-> FALSE, items |-> q] : q \in SeqsUpTo(Pool(T), MaxRecords)}

(***************************************************************************)
(* FieldWithTags and reflection.                                           *)
(***************************************************************************)
\* lines 114-117: one FieldWithTag per declared field, in declaration order
fieldWithTags(T) ==
    [i \in 1..Len(T.fields) |-> [name |-> T.fields[i].name, tag |-> T.fields[i].tag]]

\* FieldWithTags.headers: the tag when it is not empty, else the name
headers(f) ==
    [i \in 1..Len(f) |-> IF Len(f[i].tag) = 0 THEN f[i].name ELSE f[i].tag]

\* FieldWithTags.fields: the names
fields(f) == [i \in 1..Len(f) |-> f[i].name]

\* reflect.Value.Field(i): the value, read-only when the field is unexported
Field(T, rec, i) == [rec.vals[i] EXCEPT !.ro = ~T.fields[i].exported]

\* reflect.Value.FieldByName on a struct value: the first declared field of
\* that name, or the zero Value when there is none
FieldByName(T, rec, name) ==
    LET hits == {i \in 1..Len(T.fields) : T.fields[i].name = name}
    IN  IF hits = {} THEN Invalid
        ELSE Field(T, rec, CHOOSE i \in hits : \A j \in hits : i <= j)

\* lines 129-132: one cell of a data row
Cell(T, rec, name) == toString(FieldByName(T, rec, name))

\* lines 121-133: the row of one record; Elem() of a nil pointer is the zero
\* Value, on which FieldByName panics
Row(T, rec, names) ==
    IF rec.nil /\ Len(names) > 0 THEN PanicRow
    ELSE LET cells == [i \in 1..Len(names) |-> Cell(T, rec, names[i])]
         IN  IF \E i \in 1..Len(cells) : cells[i] = Panic THEN PanicRow ELSE cells

\* the content with the header appended after the data rows
ContentHeaderLast(T, items) ==
    LET fwt == fieldWithTags(T)
        rows == [k \in 1..Len(items) |-> Row(T, items[k], fields(fwt))]
    IN  IF \E k \in 1..Len(rows) : rows[k] = PanicRow THEN PanicContent
        ELSE rows \o <<headers(fwt)>>

\* lines 107-134: the header row and one row per record, or Panic
Content(T, items) ==
    LET fwt == fieldWithTags(T)
        rows == [k \in 1..Len(items) |-> Row(T, items[k], fields(fwt))]
    IN  IF \E k \in 1..Len(rows) : rows[k] = PanicRow THEN PanicContent
        ELSE <<headers(fwt)>> \o rows

(***************************************************************************)
(* encoding/csv on top of bufio, and the destination stream.               *)
(***************************************************************************)
\* csv.Writer.fieldNeedsQuotes with Comma = ','
fieldNeedsQuotes(field) ==
    IF field = <<>> THEN FALSE
    ELSE IF field = <<"\\", ".">> THEN TRUE
    ELSE \/ \E i \in 1..Len(field) : field[i] \in {",", "\"", "\r", "\n"}
         \/ IsSpace(field[1])

\* one call csv.Writer.Write makes on its buffered writer: WriteByte (also
\* WriteRune of the comma) or WriteString
ByteOp(c) == [byte |-> TRUE, s |-> <<c>>]
StringOp(t) == [byte |-> FALSE, s |-> t]

\* the calls for the inside of a quoted field: the text up to the next quote
\* or line break, then the quote doubled or the line break as it is
RECURSIVE QuotedOps(_)
QuotedOps(field) ==
    IF field = <<>> THEN <<>>
    ELSE LET sp == {i \in 1..Len(field) : field[i] \in {"\"", "\r", "\n"}}
             i == IF sp = {} THEN Len(field) + 1
                  ELSE CHOOSE x \in sp : \A y \in sp : x <= y
         IN  <<StringOp(SubSeq(field, 1, i - 1))>>
             \o (IF i > Len(field) THEN <<>>
                 ELSE <<IF field[i] = "\"" THEN StringOp(<<"\"", "\"">>)
                        ELSE ByteOp(field[i])>>
                      \o QuotedOps(SubSeq(field, i + 1, Len(field))))

\* the calls csv.Writer.Write makes for one record, in order
RowOps(record) ==
    Concat([i \in 1..Len(record) |->
               (IF i > 1 THEN <<ByteOp(",")>> ELSE <<>>)
               \o (IF fieldNeedsQuotes(record[i])
                   THEN <<ByteOp("\"")>> \o QuotedOps(record[i]) \o <<ByteOp("\"")>>
                   ELSE <<StringOp(record[i])>>)])
    \o <<ByteOp("\n")>>

\* the bytes csv.Writer.Write emits for one record
EncodeRow(record) ==
    LET ops == RowOps(record) IN Concat([k \in 1..Len(ops) |-> ops[k].s])

\* a destination that never fails
Unlimited == 0 - 1

\* io.Writer.Write(p) on a destination with room for `room` more bytes:
\* the bytes accepted
Accepted(room, p) == IF room = Unlimited THEN Len(p) ELSE Min(room, Len(p))

RoomAfter(room, n) == IF room = Unlimited THEN Unlimited ELSE room - n

\* bufio.Writer.Flush: a failed or short write is kept as the sticky error
BufFlush(io) ==
    IF io.err \/ io.buf = <<>> THEN io
    ELSE LET n == Accepted(io.room, io.buf)
         IN  [buf |-> SubSeq(io.buf, n + 1, Len(io.buf)),
              err |-> n < Len(io.buf),
              stream |-> io.stream \o SubSeq(io.buf, 1, n),
              room |-> RoomAfter(io.room, n)]

\* the size of the buffer csv.NewWriter gives its bufio.Writer
BufSize == 4096

\* bufio.Writer.WriteByte: flush first when the buffer is full
BufWriteByte(io, c) ==
    IF io.err THEN io
    ELSE LET f == IF Len(io.buf) >= BufSize THEN BufFlush(io) ELSE io
         IN  IF f.err THEN f ELSE [f EXCEPT !.buf = @ \o <<c>>]

\* bufio.Writer.WriteString: while the text does not fit, a text arriving at
\* an empty buffer goes to the destination directly (os.Stdout and files
\* are io.StringWriters), else the buffer is filled and flushed; what is
\* left is buffered
RECURSIVE BufWriteString(_, _)
BufWriteString(io, s) ==
    IF io.err THEN io
    ELSE IF Len(s) > BufSize - Len(io.buf)
    THEN IF Len(io.buf) = 0
         THEN LET n == Accepted(io.room, s)
              IN  [buf |-> <<>>,
                   err |-> n < Len(s),
                   stream |-> io.stream \o SubSeq(s, 1, n),
                   room |-> RoomAfter(io.room, n)]
         ELSE LET a == BufSize - Len(io.buf)
              IN  BufWriteString(BufFlush([io EXCEPT !.buf = @ \o SubSeq(s, 1, a)]),
                                 SubSeq(s, a + 1, Len(s)))
    ELSE [io EXCEPT !.buf = @ \o s]

RECURSIVE BufApply(_, _)
BufApply(io, ops) ==
    IF ops = <<>> THEN io
    ELSE BufApply(IF Head(ops).byte THEN BufWriteByte(io, Head(ops).s[1])
                  ELSE BufWriteString(io, Head(ops).s),
                  Tail(ops))

\* csv.Writer.Write(record): its calls on the buffered writer in order; the
\* error it returns is the buffer's sticky error
CsvWrite(io, record) == BufApply(io, RowOps(record))

(***************************************************************************)
(* encoding/json: Marshal followed by Indent with two spaces.              *)
(***************************************************************************)
RECURSIVE JsonEscape(_)
JsonEscape(s) ==
    LET sp == {i \in 1..Len(s) : s[i] \in {"\"", "\\"}}
    IN  IF sp = {} THEN s
        ELSE LET i == CHOOSE x \in sp : \A y \in sp : x <= y
             IN  SubSeq(s, 1, i - 1) \o <<"\\", s[i]>>
                 \o JsonEscape(SubSeq(s, i + 1, Len(s)))

JsonString(s) == <<"\"">> \o JsonEscape(s) \o <<"\"">>

\* a float64 m/8 in the shortest form that reads back
JsonFloat(m) ==
    LET a == IF m < 0 THEN -m ELSE m
        frac == << <<"1", "2", "5">>, <<"2", "5">>, <<"3", "7", "5">>, <<"5">>,
                   <<"6", "2", "5">>, <<"7", "5">>, <<"8", "7", "5">> >>
    IN  (IF m < 0 THEN <<"-">> ELSE <<>>) \o FormatUint(a \div 8)
        \o (IF a % 8 = 0 THEN <<>> ELSE <<".">> \o frac[a % 8])

\* time.Time.MarshalJSON: RFC 3339 in quotes
JsonTime(t) ==
    <<"\"">> \o Pad(t.y, 4) \o <<"-">> \o Pad(t.mo, 2) \o <<"-">> \o Pad(t.d, 2)
    \o <<"T">> \o Pad(t.h, 2) \o <<":">> \o Pad(t.mi, 2) \o <<":">> \o Pad(t.s, 2)
    \o <<"Z", "\"">>

Str_null == <<"n", "u", "l", "l">>

JsonValue(v) ==
    CASE v.kind = "string" -> JsonString(v.s)
      [] v.kind = "int" -> FormatInt(v.i)
      [] v.kind = "uint" -> FormatUint(v.i)
      [] v.kind = "float64" -> JsonFloat(v.i)
      [] v.kind = "bool" -> FormatBool(v.b)
      [] v.kind = "ptr" -> IF v.b THEN FormatInt(v.i) ELSE Str_null
      [] v.type = "time.Time" -> JsonTime(v.t)

RECURSIVE Join(_, _)
Join(ss, sep) ==
    IF ss = <<>> THEN <<>>
    ELSE IF Len(ss) = 1 THEN ss[1]
    ELSE ss[1] \o sep \o Join(Tail(ss), sep)

\* one record as an indented object at nesting depth 1: the exported fields
\* under their identifiers; a nil pointer is null
JsonObject(T, rec) ==
    IF rec.nil THEN Str_null
    ELSE LET ex == SelectSeq([i \in 1..Len(T.fields) |-> i],
                             LAMBDA i : T.fields[i].exported)
             member(i) == Repeat(<<" ">>, 4) \o JsonString(T.fields[i].name)
                          \o <<":", " ">> \o JsonValue(rec.vals[i])
         IN  IF ex = <<>> THEN <<"{", "}">>
             ELSE <<"{", "\n">>
                  \o Join([k \in 1..Len(ex) |-> member(ex[k])], <<",", "\n">>)
                  \o <<"\n", " ", " ", "}">>

\* json.Marshal(records) then json.Indent(.., "", "  "): a nil slice is null
JsonText(T, records) ==
    IF records.isnil THEN Str_null
    ELSE IF records.items = <<>> THEN <<"[", "]">>
    ELSE <<"[", "\n">>
         \o Join([k \in 1..Len(records.items) |->
                     <<" ", " ">> \o JsonObject(T, records.items[k])],
                 <<",", "\n">>)
         \o <<"\n", "]">>

(***************************************************************************)
(* The file system at the one path the model opens, and os.OpenFile.       *)
(***************************************************************************)
Str_out == <<"o", "u", "t">>
Str_old == <<"o", "l", "d", "\n">>

\* permission bits 0600, the third argument of os.OpenFile
Perm0600 == 384

Absent == [kind |-> "absent", mode |-> 0, content |-> <<>>]
NoParent == [kind |-> "noparent", mode |-> 0, content |-> <<>>]
Dir == [kind |-> "dir", mode |-> 493, content |-> <<>>]
File(mode, content) == [kind |-> "file", mode |-> mode, content |-> content]

\* what may be at the path before NewWriter: nothing, nothing and no parent
\* directory, a writable file (0644), a read-only file (0400), a directory
FsPool == {Absent, NoParent, Dir, File(420, Str_old), File(256, Str_old)}

OwnerWritable(mode) == (mode \div 128) % 2 = 1

\* os.OpenFile(name, flags, perm) for writing, as a non-root user:
\* [ok, entry]: whether it succeeds and what is at the path afterwards
OpenFile(entry, flags, perm) ==
    CASE entry.kind = "file" ->
           IF OwnerWritable(entry.mode)
           THEN [ok |-> TRUE,
                 entry |-> IF "O_TRUNC" \in flags
                           THEN [entry EXCEPT !.content = <<>>] ELSE entry]
           ELSE [ok |-> FALSE, entry |-> entry]
      [] entry.kind = "absent" ->
           IF "O_CREATE" \in flags
           THEN [ok |-> TRUE, entry |-> File(perm, <<>>)]
           ELSE [ok |-> FALSE, entry |-> entry]
      [] OTHER -> [ok |-> FALSE, entry |-> entry]

\* fileWriter opening without O_TRUNC
fileWriterNoTrunc(entry) ==
    LET r == OpenFile(entry, {"O_WRONLY", "O_CREATE"}, Perm0600)
    IN  [writer |-> IF r.ok THEN "file" ELSE "nil", err |-> ~r.ok, entry |-> r.entry]

\* fileWriter: (file, nil) or (nil, err)
fileWriter(entry) ==
    LET r == OpenFile(entry, {"O_WRONLY", "O_CREATE", "O_TRUNC"}, Perm0600)
    IN  [writer |-> IF r.ok THEN "file" ELSE "nil", err |-> ~r.ok, entry |-> r.entry]

\* NewWriter: standard output for the empty name, else fileWriter
NewWriterResult(name, entry) ==
    IF Len(name) = 0 THEN [writer |-> "stdout", err |-> FALSE, entry |-> entry]
    ELSE fileWriter(entry)

(***************************************************************************)
(* Format selectors.                                                       *)
(***************************************************************************)
Formats ==
    { <<>>, <<" ", "\t">>, <<"j", "s", "o", "n">>, <<" ", "J", "s", "O", "N", "\n">>,
      <<"c", "s", "v">>, <<"\t", "C", "S", "V", " ">>, <<"x", "m", "l">>,
      <<"j", "s", " ", "o", "n">>, <<"c", "s", "v", "x">> }

Str_json == <<"j", "s", "o", "n">>
Str_csv == <<"c", "s", "v">>

\* the switch on the lowercased format, not trimmed
DispatchNoTrim(format) ==
    LET f == ToLower(format)
    IN  CASE f = <<>> -> "none"
          [] f = Str_json -> "json"
          [] f = Str_csv -> "csv"
          [] OTHER -> "none"

\* the switch of Output.Write: the renderer a format selector picks
Dispatch(format) ==
    LET f == ToLower(TrimSpace(format))
    IN  CASE f = <<>> -> "none"
          [] f = Str_json -> "json"
          [] f = Str_csv -> "csv"
          [] OTHER -> "none"

(***************************************************************************)
(* State.                                                                  *)
(***************************************************************************)
VARIABLES
    fs0,       \* what was at the path before NewWriter
    fs,        \* what is at the path now
    stdout,    \* the bytes written to standard output
    room,      \* bytes the destination still accepts (Unlimited: no limit)
    filename,  \* NewWriter's argument
    writer,    \* "unset", "stdout", "file", or "nil" after a failed open
    openErr,   \* NewWriter returned an error
    T,         \* the record type of Output[T]
    format,    \* Output.format
    records,   \* Write's argument
    pc,        \* "start", "opened", "openfailed", "ready", "csv", "done", "panicked"
    renderer,  \* the branch Write took: "unset", "none", "json", "csv"
    content,   \* writCSV's content: the rows to write
    idx,       \* the row the write loop of writCSV is at
    buf,       \* the csv writer's buffer
    berr,      \* the csv writer's sticky error
    wfailed,   \* a write to the destination failed or was short
    err        \* what Write returned: "unset", "nil", "error"

vars == <<fs0, fs, stdout, room, filename, writer, openErr, T, format, records,
          pc, renderer, content, idx, buf, berr, wfailed, err>>

\* the bytes on the destination stream
Dest == IF writer = "file" THEN fs.content ELSE stdout

Rooms ==
    {k * RoomStep : k \in 0..MaxRoom} \cup {BufSize + k * RoomStep : k \in 0..1}
    \cup {Unlimited}

Init ==
    /\ fs0 \in FsPool
    /\ fs = fs0
    /\ stdout = <<>>
    /\ room \in Rooms
    /\ filename = <<>>
    /\ writer = "unset"
    /\ openErr = FALSE
    /\ T = TPerson
    /\ format = <<>>
    /\ records = [isnil |-> TRUE, items |-> <<>>]
    /\ pc = "start"
    /\ renderer = "unset"
    /\ content = <<>>
    /\ idx = 0
    /\ buf = <<>>
    /\ berr = FALSE
    /\ wfailed = FALSE
    /\ err = "unset"

\* writing `io.stream` back to the destination the writer names
PutDest(stream) ==
    IF writer = "file"
    THEN fs' = [fs EXCEPT !.content = stream] /\ UNCHANGED stdout
    ELSE stdout' = stream /\ UNCHANGED fs

\* NewWriter(name)
NewWriter ==
    /\ pc = "start"
    /\ \E name \in {<<>>, Str_out} :
         LET r == NewWriterResult(name, fs)
         IN  /\ filename' = name
             /\ writer' = r.writer
             /\ openErr' = r.err
             /\ fs' = r.entry
             /\ pc' = IF r.err THEN "openfailed" ELSE "opened"
    /\ UNCHANGED <<fs0, stdout, room, T, format, records, renderer, content, idx,
                   buf, berr, wfailed, err>>

\* NewOutput[T](writer, format)
NewOutput ==
    /\ pc = "opened"
    /\ T' \in Types
    /\ format' \in Formats
    /\ pc' = "ready"
    /\ UNCHANGED <<fs0, fs, stdout, room, filename, writer, openErr, records,
                   renderer, content, idx, buf, berr, wfailed, err>>

\* writeJson: marshal, indent, one Write to the stream
WriteJson(recs) ==
    LET out == JsonText(T, recs)
        n == Accepted(room, out)
    IN  /\ PutDest(Dest \o SubSeq(out, 1, n))
        /\ room' = RoomAfter(room, n)
        /\ wfailed' = (n < Len(out))
        /\ err' = IF n < Len(out) THEN "error" ELSE "nil"
        /\ pc' = "done"
        /\ UNCHANGED <<content, idx, buf, berr>>

\* writCSV up to the write loop (lines 102-134): the rows are all built
\* before any is written; a panic runs the deferred Flush on an empty buffer
CsvBuild(recs) ==
    LET c == Content(T, recs.items)
    IN  /\ content' = IF c = PanicContent THEN <<>> ELSE c
        /\ pc' = IF c = PanicContent THEN "panicked" ELSE "csv"
        /\ idx' = 1
        /\ UNCHANGED <<fs, stdout, room, buf, berr, wfailed, err>>

\* Output.Write(records): the switch on the normalised format
Write ==
    /\ pc = "ready"
    /\ \E recs \in Slices(T) :
         /\ records' = recs
         /\ renderer' = Dispatch(format)
         /\ CASE Dispatch(format) = "json" -> WriteJson(recs)
              [] Dispatch(format) = "csv" -> CsvBuild(recs)
              [] OTHER -> /\ err' = "nil"
                          /\ pc' = "done"
                          /\ UNCHANGED <<fs, stdout, room, content, idx, buf, berr,
                                         wfailed>>
    /\ UNCHANGED <<fs0, filename, writer, openErr, T, format>>

\* one turn of the write loop (lines 135-140): csvWriter.Write(record); on an
\* error writCSV returns it (the deferred Flush then does nothing)
CsvWriteRow ==
    /\ pc = "csv"
    /\ idx <= Len(content)
    /\ LET io == CsvWrite([buf |-> buf, err |-> berr, stream |-> Dest, room |-> room],
                          content[idx])
       IN  /\ PutDest(io.stream)
           /\ room' = io.room
           /\ buf' = io.buf
           /\ berr' = io.err
           /\ wfailed' = io.err
           /\ IF io.err
              THEN err' = "error" /\ pc' = "done" /\ UNCHANGED idx
              ELSE idx' = idx + 1 /\ UNCHANGED <<err, pc>>
    /\ UNCHANGED <<fs0, filename, writer, openErr, T, format, records, renderer,
                   content>>

\* the end of writCSV (line 142 and the deferred Flush of line 104): the
\* buffer is flushed, Flush's outcome is not looked at, nil is returned
CsvReturn ==
    /\ pc = "csv"
    /\ idx > Len(content)
    /\ LET io == BufFlush([buf |-> buf, err |-> berr, stream |-> Dest, room |-> room])
       IN  /\ PutDest(io.stream)
           /\ room' = io.room
           /\ buf' = io.buf
           /\ berr' = io.err
           /\ wfailed' = io.err
    /\ err' = "nil"
    /\ pc' = "done"
    /\ UNCHANGED <<fs0, filename, writer, openErr, T, format, records, renderer,
                   content, idx>>

Next == NewWriter \/ NewOutput \/ Write \/ CsvWriteRow \/ CsvReturn

Spec == Init /\ [][Next]_vars

(***************************************************************************)
(* Properties.                                                             *)
(***************************************************************************)
IsPrefix(p, t) == Len(p) <= Len(t) /\ p = SubSeq(t, 1, Len(p))

StartsWith(t, p) == IsPrefix(p, t)

FieldNames(ty) == {ty.fields[i].name : i \in 1..Len(ty.fields)}

\* the header label of the i-th declared field: its override, else its name
Label(ty, i) ==
    IF ty.fields[i].tag # <<>> THEN ty.fields[i].tag ELSE ty.fields[i].name

\* the rows a complete tabular rendering has: the header row, then the row
\* of each record in input order (none when building the rows panics)
ExpectedRows(ty, items) ==
    LET names == [i \in 1..Len(ty.fields) |-> ty.fields[i].name]
        rows == [k \in 1..Len(items) |-> Row(ty, items[k], names)]
    IN  IF \E k \in 1..Len(rows) : rows[k] = PanicRow THEN <<>>
        ELSE <<[i \in 1..Len(ty.fields) |-> Label(ty, i)]>> \o rows

\* the complete tabular rendering
Rendering(ty, items) ==
    LET rows == ExpectedRows(ty, items)
    IN  Concat([k \in 1..Len(rows) |-> EncodeRow(rows[k])])

\* the number of CSV rows in a text: the line terminators outside quotes
CountRows(text) ==
    Cardinality({i \in 1..Len(text) :
                    /\ text[i] = "\n"
                    /\ Cardinality({j \in 1..i : text[j] = "\""}) % 2 = 0})

CsvRan == renderer = "csv" /\ pc \in {"csv", "done"}

---------------------------------------------------------------------------
\* C1.  Write dispatches on the trimmed, lowercased selector alone.  A
\* selector is read here without trimming or lowercasing it: it names a word
\* when it is that word, in any letter case, between runs of white space.
UpperChar(c) ==
    CASE c = "j" -> "J" [] c = "s" -> "S" [] c = "o" -> "O" [] c = "n" -> "N"
      [] c = "c" -> "C" [] c = "v" -> "V" [] OTHER -> c

Names(sel, w) ==
    \E i \in 0..Len(sel), j \in 0..Len(sel) :
        /\ i + Len(w) + j = Len(sel)
        /\ \A k \in 1..i : IsSpace(sel[k])
        /\ \A k \in 1..j : IsSpace(sel[Len(sel) + 1 - k])
        /\ \A k \in 1..Len(w) : sel[i + k] \in {w[k], UpperChar(w[k])}

\* C1: once Write has dispatched, a selector naming json went to the
\* structured renderer and one naming csv to the tabular renderer (each
\* leaving its rendering on the stream when no write failed); any other
\* selector wrote zero bytes and returned success, whatever the records.
C1_FormatDispatch ==
    renderer # "unset" =>
        /\ Names(format, Str_json) =>
             /\ renderer = "json"
             /\ ~wfailed => Dest = JsonText(T, records) /\ err = "nil"
        /\ Names(format, Str_csv) =>
             /\ renderer = "csv"
             /\ (pc = "done" /\ ~wfailed) => Dest = Rendering(T, records.items)
        /\ (~Names(format, Str_json) /\ ~Names(format, Str_csv)) =>
             /\ renderer = "none"
             /\ pc = "done"
             /\ err = "nil"
             /\ Dest = <<>>
             /\ ~wfailed

\* witnesses: an unrecognised selector with records, and a padded mixed-case
\* json selector, after Write returned
C1_Witness ==
    /\ pc = "done"
    /\ \/ /\ format = <<"c", "s", "v", "x">>
          /\ Len(records.items) = 2
          /\ renderer = "none"
       \/ /\ format = <<" ", "J", "s", "O", "N", "\n">>
          /\ Len(records.items) = 2
          /\ err = "nil"

---------------------------------------------------------------------------
\* C2: when Write in csv format returns success for n records, the stream
\* holds exactly n + 1 rows: the header row, then one row per record in
\* input order.
C2_CsvRowCount ==
    (pc = "done" /\ renderer = "csv" /\ err = "nil") =>
        /\ CountRows(Dest) = Len(records.items) + 1
        /\ Dest = Rendering(T, records.items)

\* the same, for the runs in which no write to the stream failed
C2_RowCountWhenNoWriteFailed ==
    (pc = "done" /\ renderer = "csv" /\ err = "nil" /\ ~wfailed) =>
        /\ CountRows(Dest) = Len(records.items) + 1
        /\ Dest = Rendering(T, records.items)

---------------------------------------------------------------------------
\* C3: in the rows writCSV builds, every data row has as many cells as the
\* header row, header cell i is the label of the i-th declared field, and
\* cell i of the row of a record is the text of that record's i-th declared
\* field.
C3_ColumnsMatchFields ==
    CsvRan =>
        /\ Len(content) = Len(records.items) + 1
        /\ Len(content[1]) = Len(T.fields)
        /\ \A i \in 1..Len(T.fields) : content[1][i] = Label(T, i)
        /\ \A k \in 2..Len(content) :
             /\ Len(content[k]) = Len(content[1])
             /\ \A i \in 1..Len(T.fields) :
                  content[k][i] = toString(Field(T, records.items[k - 1], i))

DistinctNames(ty) ==
    \A i, j \in 1..Len(ty.fields) : ty.fields[i].name = ty.fields[j].name => i = j

\* the same, for the record types whose field identifiers are all different
C3_ColumnsWhenNamesDistinct ==
    (CsvRan /\ DistinctNames(T)) =>
        /\ Len(content) = Len(records.items) + 1
        /\ Len(content[1]) = Len(T.fields)
        /\ \A i \in 1..Len(T.fields) : content[1][i] = Label(T, i)
        /\ \A k \in 2..Len(content) :
             /\ Len(content[k]) = Len(content[1])
             /\ \A i \in 1..Len(T.fields) :
                  content[k][i] = toString(Field(T, records.items[k - 1], i))

---------------------------------------------------------------------------
IsDigit(c) == c \in {"0", "1", "2", "3", "4", "5", "6", "7", "8", "9"}

DigitValue(c) == CHOOSE d \in 0..9 : DigitChar(d) = c

AllDigits(t) == t # <<>> /\ \A i \in 1..Len(t) : IsDigit(t[i])

RECURSIVE ParseUint(_)
ParseUint(t) ==
    IF t = <<>> THEN 0
    ELSE 10 * ParseUint(SubSeq(t, 1, Len(t) - 1)) + DigitValue(t[Len(t)])

Unsigned(t) == IF t # <<>> /\ Head(t) = "-" THEN Tail(t) ELSE t

Abs(n) == IF n < 0 THEN 0 - n ELSE n

\* what the policy table says of the text `out` of a value v
FollowsPolicy(v, out) ==
    CASE v.kind = "string" -> out = v.s
      [] v.kind = "int" ->
           /\ AllDigits(Unsigned(out))
           /\ ParseUint(Unsigned(out)) = Abs(v.i)
           /\ (Head(out) = "-") = (v.i < 0)
      [] v.kind = "float64" ->
           \* -?digits.dd, the nearest hundredth to v.i / 8
           LET u == Unsigned(out)
               n == Len(u)
           IN  /\ n >= 4
               /\ u[n - 2] = "."
               /\ AllDigits(SubSeq(u, 1, n - 3))
               /\ AllDigits(SubSeq(u, n - 1, n))
               /\ (Head(out) = "-") = (v.i < 0)
               /\ LET h == 100 * ParseUint(SubSeq(u, 1, n - 3))
                           + ParseUint(SubSeq(u, n - 1, n))
                  IN  Abs(8 * h - 100 * Abs(v.i)) <= 4
      [] v.kind = "bool" ->
           out = IF v.b THEN <<"t", "r", "u", "e">> ELSE <<"f", "a", "l", "s", "e">>
      [] v.type = "time.Time" ->
           /\ Len(out) = 29
           /\ ParseUint(SubSeq(out, 1, 4)) = v.t.y
           /\ ParseUint(SubSeq(out, 12, 13)) = v.t.h
      [] OTHER -> out = <<>>

\* C4: toString never fails and follows the policy table, on every field
\* value the row loop of writCSV hands it.
C4_ToStringTotal ==
    (renderer = "csv" /\ pc \in {"csv", "done", "panicked"}) =>
        \A k \in 1..Len(records.items) :
            ~records.items[k].nil =>
                \A i \in 1..Len(T.fields) :
                    LET v == Field(T, records.items[k], i)
                    IN  /\ toString(v) # Panic
                        /\ FollowsPolicy(v, toString(v))

\* the same, for the values read from exported fields
C4_PolicyOnExportedFields ==
    (renderer = "csv" /\ pc \in {"csv", "done", "panicked"}) =>
        \A k \in 1..Len(records.items) :
            ~records.items[k].nil =>
                \A i \in 1..Len(T.fields) :
                    LET v == Field(T, records.items[k], i)
                    IN  ~v.ro => /\ toString(v) # Panic
                                 /\ FollowsPolicy(v, toString(v))

---------------------------------------------------------------------------
\* the positions at which the lines of a text start, and the line at one
LineStarts(doc) == {1} \cup {i + 1 : i \in {j \in 1..Len(doc) : doc[j] = "\n"}}

LineAt(doc, st) ==
    LET ends == {j \in st..Len(doc) : doc[j] = "\n"} \cup {Len(doc) + 1}
    IN  SubSeq(doc, st, (CHOOSE e \in ends : \A x \in ends : e <= x) - 1)

\* the lines of an indented document that open an element of the top-level
\* array (indented by two spaces), and those that open an object there
ElementLines(doc) ==
    {st \in LineStarts(doc) :
        LET l == LineAt(doc, st)
        IN  Len(l) >= 3 /\ l[1] = " " /\ l[2] = " " /\ l[3] \notin {" ", "}"}}

ObjectLines(doc) == {st \in ElementLines(doc) : LineAt(doc, st)[3] = "{"}

\* the text before the first quote
UpToQuote(t) ==
    LET q == {i \in 1..Len(t) : t[i] = "\""} \cup {Len(t) + 1}
    IN  SubSeq(t, 1, (CHOOSE e \in q : \A x \in q : e <= x) - 1)

\* the keys of the objects of the top-level array: the members are indented
\* by four spaces
Keys(doc) ==
    {UpToQuote(SubSeq(LineAt(doc, st), 6, Len(LineAt(doc, st)))) :
        st \in {x \in LineStarts(doc) :
                  LET l == LineAt(doc, x)
                  IN  Len(l) >= 5 /\ SubSeq(l, 1, 5) = <<" ", " ", " ", " ", "\"">>}}

\* C5: when Write in json format returns success, the document on the stream
\* is an array with exactly one object per record, and every key is a field
\* identifier, never a display-name override.
C5_JsonArrayOfObjects ==
    (pc = "done" /\ renderer = "json" /\ err = "nil") =>
        /\ Head(Dest) = "["
        /\ Dest[Len(Dest)] = "]"
        /\ Cardinality(ElementLines(Dest)) = Len(records.items)
        /\ Cardinality(ObjectLines(Dest)) = Len(records.items)
        /\ Keys(Dest) \subseteq FieldNames(T)
        /\ \A i \in 1..Len(T.fields) :
             T.fields[i].tag # <<>> => T.fields[i].tag \notin Keys(Dest)

\* the same, for a slice that is not nil and holds no nil pointer
C5_ArrayWhenNothingIsNil ==
    (/\ pc = "done" /\ renderer = "json" /\ err = "nil"
     /\ ~records.isnil
     /\ \A k \in 1..Len(records.items) : ~records.items[k].nil) =>
        /\ Head(Dest) = "["
        /\ Dest[Len(Dest)] = "]"
        /\ Cardinality(ElementLines(Dest)) = Len(records.items)
        /\ Cardinality(ObjectLines(Dest)) = Len(records.items)
        /\ Keys(Dest) \subseteq FieldNames(T)
        /\ \A i \in 1..Len(T.fields) :
             T.fields[i].tag # <<>> => T.fields[i].tag \notin Keys(Dest)

---------------------------------------------------------------------------
\* C6: in tabular mode Write never returns success when a write to the
\* stream failed, the final flush included.
C6_WriteErrorReturned ==
    (pc = "done" /\ renderer = "csv" /\ wfailed) => err = "error"

\* the same, for the writes made inside the row loop
C6_RowLoopErrorReturned ==
    (pc = "done" /\ renderer = "csv" /\ wfailed /\ idx <= Len(content)) => err = "error"

---------------------------------------------------------------------------
\* C7: the claim is about a record that lacks a field writCSV looks up.  The
\* names looked up at line 130 are the names of T's own fields (lines
\* 114-119) and every record is a T, so on every record the row loop reaches
\* the lookup finds a field: the zero Value never reaches toString.
C7_LookupAlwaysFinds ==
    (pc \in {"csv", "done"} /\ renderer = "csv") =>
        \A k \in 1..Len(records.items) :
            ~records.items[k].nil =>
                \A i \in 1..Len(T.fields) :
                    FieldByName(T, records.items[k], fields(fieldWithTags(T))[i]) # Invalid

---------------------------------------------------------------------------
\* C8: Write never panics.
C8_NeverPanics == pc # "panicked"

\* the same, for sequences without nil pointers of types whose fields are
\* all exported
C8_NoPanicWhenExportedAndNotNil ==
    (/\ \A i \in 1..Len(T.fields) : T.fields[i].exported
     /\ \A k \in 1..Len(records.items) : ~records.items[k].nil) => pc # "panicked"

---------------------------------------------------------------------------
\* C9: after NewWriter, an empty name gave standard output and left the path
\* as it was; any other name either opened the file, created with mode 0600
\* when it was absent and empty before rendering starts whatever it held, or
\* failed, giving an error and no stream, after which nothing is rendered.
C9_NewWriter ==
    pc \in {"opened", "openfailed", "ready", "csv", "done", "panicked"} =>
        /\ filename = <<>> => writer = "stdout" /\ ~openErr /\ fs = fs0
        /\ (filename # <<>> /\ ~openErr) =>
             /\ writer = "file"
             /\ fs0.kind \in {"absent", "file"}
             /\ fs.kind = "file"
             /\ fs0.kind = "absent" => fs.mode = 384
             /\ fs0.kind = "file" => fs.mode = fs0.mode
             /\ pc \in {"opened", "ready"} => fs.content = <<>>
             /\ ~StartsWith(fs.content, <<"o", "l", "d">>)
        /\ openErr =>
             /\ filename # <<>>
             /\ writer = "nil"
             /\ fs = fs0
             /\ pc = "openfailed"
             /\ renderer = "unset"
             /\ stdout = <<>>

\* witnesses: a file that held text is open and empty; an open that failed
C9_Witness ==
    \/ /\ pc = "opened"
       /\ filename = Str_out
       /\ fs0.kind = "file"
       /\ fs0.content # <<>>
       /\ fs.content = <<>>
    \/ /\ pc = "openfailed"
       /\ fs0.kind = "dir"

---------------------------------------------------------------------------
\* C10: in tabular mode the bytes on the stream are at every point a prefix
\* of the complete rendering (header row, then the data rows in input
\* order), and no step of Write takes back a byte already on the stream.
C10_StreamIsPrefix ==
    /\ [](renderer = "csv" => IsPrefix(Dest, Rendering(T, records.items)))
    /\ [][renderer = "csv" => IsPrefix(Dest, Dest')]_vars

\* witness: Write returned an error with the header row and part of the data
\* rows on the stream
C10_Witness ==
    /\ pc = "done"
    /\ renderer = "csv"
    /\ err = "error"
    /\ Len(records.items) = 2
    /\ Len(Dest) > Len(EncodeRow(content[1]))
    /\ Len(Dest) < Len(Rendering(T, records.items))

====
